---- MODULE Spec2Model ----
(***************************************************************************)
(* Model of the certificate chaincode chaincode/cert01/my.go.              *)
(*                                                                         *)
(* A Go string or byte slice is a sequence of one-character strings.  The  *)
(* byte 0x00 is the element NUL.  Fixed pieces of text that the program    *)
(* emits as a whole (JSON punctuation, message texts, the literals         *)
(* "student" and "degree~name") are single elements holding several        *)
(* characters; none of them can be spelled with the characters of the      *)
(* arguments, so two sequences are equal exactly when the bytes they stand *)
(* for are equal.                                                          *)
(*                                                                         *)
(* The ledger stub is the key-value store of the collaborator contract:    *)
(* GetState, PutState and GetQueryResult act on `store` at once and each   *)
(* of them may fail; CreateCompositeKey is the shim's pure function.       *)
(***************************************************************************)
EXTENDS Integers, Sequences, FiniteSets, TLC

VARIABLES store,      \* the state database: key -> value, for the keys present
          function,   \* the function name of the last invocation
          args,       \* its arguments
          resp,       \* its response
          calls,      \* the stub calls it made, in order
          created     \* history: certificateID -> the arguments of the initCert that
                      \* succeeded for it and the bytes it wrote under that key

vars == <<store, function, args, resp, calls, created>>

----------------------------------------------------------------------------
(* Bounds of the model *)

\* largest number of arguments of an invocation
MaxArgs == 5

\* number of plain certificate ids (taken from PlainCerts)
NumCerts == 2

----------------------------------------------------------------------------
(* Strings *)

NUL == "NUL"

Uppers == <<"A","B","C","D","E","F","G","H","I","J","K","L","M",
            "N","O","P","Q","R","S","T","U","V","W","X","Y","Z">>
Lowers == <<"a","b","c","d","e","f","g","h","i","j","k","l","m",
            "n","o","p","q","r","s","t","u","v","w","x","y","z">>
Digits == <<"0","1","2","3","4","5","6","7","8","9">>

RECURSIVE Concat(_)
Concat(ss) == IF ss = <<>> THEN <<>> ELSE Head(ss) \o Concat(Tail(ss))

ToLowerChar(c) ==
  IF \E i \in 1..26 : Uppers[i] = c
  THEN Lowers[CHOOSE i \in 1..26 : Uppers[i] = c]
  ELSE c

\* a ToLower that leaves the letters as they are
ToLower_Identity(s) == s

\* strings.ToLower
ToLower(s) == [i \in 1..Len(s) |-> ToLowerChar(s[i])]

IsDigit(c) == \E i \in 1..10 : Digits[i] = c
DigitVal(c) == (CHOOSE i \in 1..10 : Digits[i] = c) - 1

RECURSIVE DigitsVal(_)
DigitsVal(s) ==
  IF s = <<>> THEN 0 ELSE 10 * DigitsVal(SubSeq(s, 1, Len(s) - 1)) + DigitVal(s[Len(s)])

\* an Atoi that reads over the characters that are not digits
Atoi_Lenient(s) ==
  [err |-> FALSE,
   val |-> DigitsVal(SelectSeq(s, IsDigit)) * (IF s # <<>> /\ s[1] = "-" THEN 0 - 1 ELSE 1)]

\* strconv.Atoi: an optional sign, then one or more decimal digits
Atoi(s) ==
  LET signed == s # <<>> /\ s[1] \in {"+", "-"}
      body   == IF signed THEN Tail(s) ELSE s
  IN  IF body = <<>> \/ \E i \in 1..Len(body) : ~IsDigit(body[i])
      THEN [err |-> TRUE, val |-> 0]
      ELSE [err |-> FALSE,
            val |-> IF signed /\ s[1] = "-" THEN 0 - DigitsVal(body) ELSE DigitsVal(body)]

RECURSIVE NatDigits(_)
NatDigits(n) ==
  IF n < 10 THEN <<Digits[n + 1]>> ELSE NatDigits(n \div 10) \o <<Digits[(n % 10) + 1]>>

\* strconv-style decimal text of an integer, as json.Marshal writes an int field
Itoa(n) == IF n < 0 THEN <<"-">> \o NatDigits(0 - n) ELSE NatDigits(n)

----------------------------------------------------------------------------
(* The persisted encoding of a record: json.Marshal of the struct student *)

JDocType == "{\"docType\":\""
JCert    == "\",\"cert\":\""
JDegree  == "\",\"degree\":\""
JID      == "\",\"iD\":"
JOwner   == ",\"owner\":\""
JEnd     == "\"}"

JChunks == <<JDocType, JCert, JDegree, JID, JOwner, JEnd>>

\* json.Marshal's escaping of one character of a string field
JSONEscapeChar(c) ==
  CASE c = NUL  -> <<"\\", "u", "0", "0", "0", "0">>
    [] c = "\"" -> <<"\\", "\"">>
    [] c = "\\" -> <<"\\", "\\">>
    [] OTHER    -> <<c>>

JSONEscape(s) == Concat([i \in 1..Len(s) |-> JSONEscapeChar(s[i])])

\* the struct literal &student{objectType, studentcert, degree, iD, owner}
student(objectType, cert, degree, iD, owner) ==
  [ObjectType |-> objectType, Cert |-> cert, Degree |-> degree, ID |-> iD, Owner |-> owner]

\* json.Marshal(student)
Marshal(st) ==
  <<JDocType>> \o JSONEscape(st.ObjectType) \o
  <<JCert>>    \o JSONEscape(st.Cert) \o
  <<JDegree>>  \o JSONEscape(st.Degree) \o
  <<JID>>      \o Itoa(st.ID) \o
  <<JOwner>>   \o JSONEscape(st.Owner) \o
  <<JEnd>>

\* what a JSON decoder recovers from the escaped string field s[i..n]
RECURSIVE JSONUnescape(_, _, _)
JSONUnescape(s, i, n) ==
  IF i > n THEN <<>>
  ELSE IF s[i] = "\\" /\ i + 5 <= n /\ s[i + 1] = "u"
       THEN <<NUL>> \o JSONUnescape(s, i + 6, n)
  ELSE IF s[i] = "\\" /\ i + 1 <= n
       THEN <<s[i + 1]>> \o JSONUnescape(s, i + 2, n)
  ELSE <<s[i]>> \o JSONUnescape(s, i + 1, n)

\* the positions of the punctuation in the bytes b, in increasing order
RECURSIVE ChunkPositions(_, _)
ChunkPositions(b, i) ==
  IF i > Len(b) THEN <<>>
  ELSE (IF \E j \in 1..6 : JChunks[j] = b[i] THEN <<i>> ELSE <<>>) \o ChunkPositions(b, i + 1)

\* whether the punctuation at the positions p makes b a student object
WellFormed(b, p) ==
  /\ Len(p) = 6
  /\ \A j \in 1..6 : b[p[j]] = JChunks[j]
  /\ p[1] = 1
  /\ p[6] = Len(b)
  /\ ~Atoi(SubSeq(b, p[4] + 1, p[5] - 1)).err

\* whether the bytes b are the encoding of a student object
IsDocument(b) ==
  /\ b # <<>>
  /\ b[1] = JDocType
  /\ WellFormed(b, ChunkPositions(b, 1))

\* the j-th string field of a document whose punctuation is at the positions p
StringField(b, p, j) == JSONUnescape(b, p[j] + 1, p[j + 1] - 1)

\* the decoded fields of a document
Unmarshal(b) ==
  LET p == ChunkPositions(b, 1)
  IN  student(StringField(b, p, 1),
              StringField(b, p, 2),
              StringField(b, p, 3),
              Atoi(SubSeq(b, p[4] + 1, p[5] - 1)).val,
              StringField(b, p, 5))

----------------------------------------------------------------------------
(* The ledger stub *)

Nil == <<>>

\* the text of an error returned by the store or the query facility
StoreErr == <<"state database unavailable">>

\* stub.GetState(key): the value at key, nil when there is none
GetState(s, key, fails) ==
  IF fails THEN [err |-> TRUE, val |-> Nil]
  ELSE [err |-> FALSE, val |-> IF key \in DOMAIN s THEN s[key] ELSE Nil]

\* stub.PutState(key, value): the store after the call
PutState(s, key, value, fails) ==
  IF fails THEN [err |-> TRUE, store |-> s]
  ELSE [err |-> FALSE, store |-> [k \in DOMAIN s \cup {key} |-> IF k = key THEN value ELSE s[k]]]

\* an attribute of a composite key must not contain U+0000
ValidAttribute(str) == \A i \in 1..Len(str) : str[i] # NUL

\* stub.CreateCompositeKey(objectType, attributes)
CreateCompositeKey(objectType, attributes) ==
  IF ~ValidAttribute(objectType) \/ \E i \in 1..Len(attributes) : ~ValidAttribute(attributes[i])
  THEN [err |-> TRUE, key |-> <<>>]
  ELSE [err |-> FALSE,
        key |-> <<NUL>> \o objectType \o <<NUL>> \o
                Concat([i \in 1..Len(attributes) |-> attributes[i] \o <<NUL>>])]

\* one entry of the log of stub calls
Call(op, key, value, ok) == [op |-> op, key |-> key, value |-> value, ok |-> ok]

\* the calls that go to the store or the query facility and so may fail
StoreOps == {"GetState", "PutState", "GetQueryResult", "Next"}

RECURSIVE StoreCalls(_)
StoreCalls(c) ==
  IF c = <<>> THEN 0
  ELSE (IF Head(c).op \in StoreOps THEN 1 ELSE 0) + StoreCalls(Tail(c))

----------------------------------------------------------------------------
(* Responses *)

shimSuccess(payload) == [Status |-> 200, Message |-> <<>>, Payload |-> payload]
shimError(msg)       == [Status |-> 500, Message |-> msg, Payload |-> Nil]

\* what a handler leaves behind: its response, the store and the stub calls made
Outcome(r, s, c) == [resp |-> r, store |-> s, calls |-> c]

----------------------------------------------------------------------------
(* initCert *)

EmptyArgumentMsgs ==
  << <<"1st argument must be a non-empty string">>,
     <<"2nd argument must be a non-empty string">>,
     <<"3rd argument must be a non-empty string">>,
     <<"4th argument must be a non-empty string">> >>

\* a count check that lets extra arguments through
WrongArgCount_TooFew(a) == Len(a) < 4

\* if len(args) != 4
WrongArgCount(a) == Len(a) # 4

\* a sanitation that tests the arguments from the last to the first
EmptyArgument_LastFirst(a) ==
  IF Len(a[4]) <= 0 THEN 4
  ELSE IF Len(a[3]) <= 0 THEN 3
  ELSE IF Len(a[2]) <= 0 THEN 2
  ELSE IF Len(a[1]) <= 0 THEN 1
  ELSE 0

\* the input sanitation: the position of the first empty argument, 0 when none is
EmptyArgument(a) ==
  IF Len(a[1]) <= 0 THEN 1
  ELSE IF Len(a[2]) <= 0 THEN 2
  ELSE IF Len(a[3]) <= 0 THEN 3
  ELSE IF Len(a[4]) <= 0 THEN 4
  ELSE 0

\* an existence test that never finds a value
Exists_Never(studentAsBytes) == FALSE

\* else if studentAsBytes != nil
Exists(studentAsBytes) == studentAsBytes # Nil

indexName == <<"degree~name">>

\* value := []byte{0x00}
IndexValue == <<NUL>>

\* the part of initCert after the uniqueness check: marshal, save, index
SaveAndIndex(s, c1, studentcert, degree, iD, owner, fault) ==
  LET st    == student(<<"student">>, studentcert, degree, iD, owner)
      bytes == Marshal(st)
      put   == PutState(s, studentcert, bytes, fault = 2)
      c2    == c1 \o <<Call("PutState", studentcert, bytes, ~put.err)>>
  IN  IF put.err THEN Outcome(shimError(StoreErr), put.store, c2)
      ELSE LET ck == CreateCompositeKey(indexName, <<st.Degree, st.Cert>>)
               c3 == c2 \o <<Call("CreateCompositeKey", ck.key, Nil, ~ck.err)>>
           IN  IF ck.err
               THEN Outcome(shimError(<<"invalid composite key attribute">>), put.store, c3)
               ELSE LET idx == PutState(put.store, ck.key, IndexValue, fault = 3)
                        c4  == c3 \o <<Call("PutState", ck.key, IndexValue, ~idx.err)>>
                    IN  \* the error of this PutState is dropped
                        Outcome(shimSuccess(Nil), idx.store, c4)

\* fault: the number of the store call of this invocation that fails, 0 for none
initCert(s, a, fault) ==
  IF WrongArgCount(a)
  THEN Outcome(shimError(<<"Incorrect number of arguments. Expecting 4">>), s, <<>>)
  ELSE IF EmptyArgument(a) # 0
  THEN Outcome(shimError(EmptyArgumentMsgs[EmptyArgument(a)]), s, <<>>)
  ELSE
    LET studentcert == a[1]
        degree      == ToLower(a[2])
        owner       == ToLower(a[4])
        iD          == Atoi(a[3])
    IN  IF iD.err
        THEN Outcome(shimError(<<"3rd argument must be a numeric string">>), s, <<>>)
        ELSE
          LET get == GetState(s, studentcert, fault = 1)
              c1  == <<Call("GetState", studentcert, get.val, ~get.err)>>
          IN  IF get.err
              THEN Outcome(shimError(<<"Failed to get student: ">> \o StoreErr), s, c1)
              ELSE IF Exists(get.val)
              THEN Outcome(shimError(<<"This student already exists: ">> \o studentcert), s, c1)
              ELSE SaveAndIndex(s, c1, studentcert, degree, iD.val, owner, fault)

----------------------------------------------------------------------------
(* readCert *)

\* an absence test that never fires
Absent_Never(valAsbytes) == FALSE

\* else if valAsbytes == nil
Absent(valAsbytes) == valAsbytes = Nil

\* readCert that takes a failed lookup for an absent key
readCert_ErrorAsAbsent(s, a, fault) ==
  IF Len(a) # 1
  THEN Outcome(shimError(<<"Incorrect number of arguments. Expecting cert of the student to query">>),
               s, <<>>)
  ELSE
    LET cert == a[1]
        get  == GetState(s, cert, fault = 1)
        c1   == <<Call("GetState", cert, get.val, ~get.err)>>
    IN  IF get.err \/ Absent(get.val)
        THEN Outcome(shimError(<<"{\"Error\":\"student does not exist: ">> \o cert \o <<"\"}">>), s, c1)
        ELSE Outcome(shimSuccess(get.val), s, c1)

readCert(s, a, fault) ==
  IF Len(a) # 1
  THEN Outcome(shimError(<<"Incorrect number of arguments. Expecting cert of the student to query">>),
               s, <<>>)
  ELSE
    LET cert == a[1]
        get  == GetState(s, cert, fault = 1)
        c1   == <<Call("GetState", cert, get.val, ~get.err)>>
    IN  IF get.err
        THEN Outcome(shimError(<<"{\"Error\":\"Failed to get state for ">> \o cert \o <<"\"}">>), s, c1)
        ELSE IF Absent(get.val)
        THEN Outcome(shimError(<<"{\"Error\":\"student does not exist: ">> \o cert \o <<"\"}">>), s, c1)
        ELSE Outcome(shimSuccess(get.val), s, c1)

----------------------------------------------------------------------------
(* The keys and owners of the model *)

\* the plain certificate ids, in increasing byte order
PlainCerts == << <<"A">>, <<"b">>, <<"c", "1">> >>
OwnerNames == << <<"A", "l">>, <<"b", "o">> >>

\* a certificateID that is byte for byte the index key of (m, A)
CollidingCert == CreateCompositeKey(indexName, << <<"m">>, <<"A">> >>).key

\* the certificate ids of the model in increasing byte order (0x00 comes first)
KeysInOrder == <<CollidingCert>> \o SubSeq(PlainCerts, 1, NumCerts)

----------------------------------------------------------------------------
(* queryCertByOwner and getQueryResultForQueryString *)

QPrefix == "{\"selector\":{\"docType\":\"student\",\"owner\":\""
QSuffix == "\"}}"

\* fmt.Sprintf("{\"selector\":{\"docType\":\"student\",\"owner\":\"%s\"}}", owner)
QueryString(owner) == <<QPrefix>> \o owner \o <<QSuffix>>

\* the owner the query facility reads out of the selector
SelectorOwner(queryString) == SubSeq(queryString, 2, Len(queryString) - 1)

\* the keys of the documents the selector matches
QueryMatches(s, queryString) ==
  {k \in DOMAIN s :
     /\ s[k][1] = JDocType
     /\ LET p == ChunkPositions(s[k], 1)
        IN  /\ WellFormed(s[k], p)
            /\ StringField(s[k], p, 1) = <<"student">>
            /\ StringField(s[k], p, 5) = SelectorOwner(queryString)}

\* stub.GetQueryResult(queryString): the matching documents in the order of
\* their keys (KeysInOrder lists the keys that can hold a document)
GetQueryResult(s, queryString) ==
  LET M    == QueryMatches(s, queryString)
      keys == SelectSeq(KeysInOrder, LAMBDA k : k \in M)
  IN  [i \in 1..Len(keys) |-> [Key |-> keys[i], Value |-> s[keys[i]]]]

\* ArrayMember with no space before "Record"
ArrayMember_Compact(queryResponse, bArrayMemberAlreadyWritten) ==
  (IF bArrayMemberAlreadyWritten = TRUE THEN <<",">> ELSE <<>>) \o
  <<"{\"Key\":">> \o <<"\"">> \o queryResponse.Key \o <<"\"">> \o
  <<",\"Record\":">> \o queryResponse.Value \o <<"}">>

\* ArrayMember without the separator before the second and later members
ArrayMember_NoSeparator(queryResponse, bArrayMemberAlreadyWritten) ==
  <<"{\"Key\":">> \o <<"\"">> \o queryResponse.Key \o <<"\"">> \o
  <<", \"Record\":">> \o queryResponse.Value \o <<"}">>

\* the bytes written into the buffer for one queryResponse
ArrayMember(queryResponse, bArrayMemberAlreadyWritten) ==
  (IF bArrayMemberAlreadyWritten = TRUE THEN <<",">> ELSE <<>>) \o
  <<"{\"Key\":">> \o <<"\"">> \o queryResponse.Key \o <<"\"">> \o
  <<", \"Record\":">> \o queryResponse.Value \o <<"}">>

\* the loop over resultsIterator from its n-th element on; Next number n is
\* store call number n + 1 of the invocation
RECURSIVE Iterate(_, _, _, _, _)
Iterate(stream, n, buffer, c, fault) ==
  IF n > Len(stream)
  THEN [err |-> FALSE, bytes |-> buffer \o <<"]">>, calls |-> c \o <<Call("Close", Nil, Nil, TRUE)>>]
  ELSE IF fault = n + 1
  THEN [err |-> TRUE, bytes |-> Nil,
        calls |-> c \o <<Call("Next", Nil, Nil, FALSE), Call("Close", Nil, Nil, TRUE)>>]
  ELSE Iterate(stream, n + 1, buffer \o ArrayMember(stream[n], n > 1),
               c \o <<Call("Next", stream[n].Key, stream[n].Value, TRUE)>>, fault)

\* getQueryResultForQueryString without the deferred resultsIterator.Close()
getQueryResultForQueryString_NoClose(s, queryString, fault) ==
  IF fault = 1
  THEN [err |-> TRUE, bytes |-> Nil, calls |-> <<Call("GetQueryResult", queryString, Nil, FALSE)>>]
  ELSE LET r == Iterate(GetQueryResult(s, queryString), 1, <<"[">>,
                        <<Call("GetQueryResult", queryString, Nil, TRUE)>>, fault)
       IN  [r EXCEPT !.calls = SelectSeq(r.calls, LAMBDA c : c.op # "Close")]

getQueryResultForQueryString(s, queryString, fault) ==
  IF fault = 1
  THEN [err |-> TRUE, bytes |-> Nil, calls |-> <<Call("GetQueryResult", queryString, Nil, FALSE)>>]
  ELSE Iterate(GetQueryResult(s, queryString), 1, <<"[">>,
               <<Call("GetQueryResult", queryString, Nil, TRUE)>>, fault)

\* queryCertByOwner that answers with whatever bytes came back, error or not
queryCertByOwner_ErrorIgnored(s, a, fault) ==
  IF Len(a) < 1
  THEN Outcome(shimError(<<"Incorrect number of arguments. Expecting 1">>), s, <<>>)
  ELSE LET r == getQueryResultForQueryString(s, QueryString(ToLower(a[1])), fault)
       IN  Outcome(shimSuccess(r.bytes), s, r.calls)

queryCertByOwner(s, a, fault) ==
  IF Len(a) < 1
  THEN Outcome(shimError(<<"Incorrect number of arguments. Expecting 1">>), s, <<>>)
  ELSE
    LET owner == ToLower(a[1])
        queryString == QueryString(owner)
        r == getQueryResultForQueryString(s, queryString, fault)
    IN  IF r.err THEN Outcome(shimError(StoreErr), s, r.calls)
        ELSE Outcome(shimSuccess(r.bytes), s, r.calls)

----------------------------------------------------------------------------
(* Invoke *)

\* Invoke with a verb that deletes the key of its argument
Invoke_WithDelete(s, fn, a, fault) ==
  IF fn = "initCert" THEN initCert(s, a, fault)
  ELSE IF fn = "readCert" THEN readCert(s, a, fault)
  ELSE IF fn = "queryCertByOwner" THEN queryCertByOwner(s, a, fault)
  ELSE IF fn = "deleteCert" /\ Len(a) = 1
  THEN Outcome(shimSuccess(Nil), [k \in DOMAIN s \ {a[1]} |-> s[k]], <<>>)
  ELSE Outcome(shimError(<<"Received unknown function invocation">>), s, <<>>)

Invoke(s, fn, a, fault) ==
  IF fn = "initCert" THEN initCert(s, a, fault)
  ELSE IF fn = "readCert" THEN readCert(s, a, fault)
  ELSE IF fn = "queryCertByOwner" THEN queryCertByOwner(s, a, fault)
  ELSE Outcome(shimError(<<"Received unknown function invocation">>), s, <<>>)

----------------------------------------------------------------------------
(* The invocations the model issues *)

Certs  == {KeysInOrder[i] : i \in 1..Len(KeysInOrder)}
Owners == {OwnerNames[i] : i \in 1..2}

\* the well-formed argument lists
ValidArgs == {<<c, <<"M">>, <<"-", "0", "7">>, o>> : c \in Certs, o \in Owners}

\* two argument lists for the first plain id, one with a 3rd argument that is no numeral
SampleArgs    == <<PlainCerts[1], <<"M">>, <<"-", "0", "7">>, OwnerNames[1]>>
NonNumericArgs == <<PlainCerts[1], <<"M">>, <<"7", "x">>, OwnerNames[1]>>

\* a with the arguments at the positions P emptied
Blank(a, P) == [i \in 1..Len(a) |-> IF i \in P THEN <<>> ELSE a[i]]

FourArgs ==
  ValidArgs \cup {Blank(a, P) : a \in {SampleArgs, NonNumericArgs}, P \in SUBSET (1..4)}

\* argument lists of the other lengths up to MaxArgs: a cut short or padded
Padded(a, n) == [i \in 1..n |-> IF i <= Len(a) THEN a[i] ELSE <<"x">>]

InitCertArgs ==
  FourArgs \cup {Padded(a, n) : a \in {SampleArgs, Blank(SampleArgs, 1..4)}, n \in (0..MaxArgs) \ {4}}

\* the keys read: the certificate ids, the empty key and the index keys
IndexKeys == {CreateCompositeKey(indexName, << <<"m">>, PlainCerts[i] >>).key : i \in 1..NumCerts}
ReadCertArgs ==
  {<<k>> : k \in (Certs \cup IndexKeys \cup {<<>>})} \cup {<<>>, <<PlainCerts[1], <<"x">> >>}

\* the owners queried: the owners of the records and the same names in another case
QueryArgs ==
  {<<>>, <<OwnerNames[1], <<"x">> >>} \cup {<<o>> : o \in Owners \cup {<<"a", "l">>, <<"B", "o">>}}

UnknownFunctions == {"Init", "deleteCert"}

----------------------------------------------------------------------------
(* The state machine *)

Init ==
  /\ store = <<>>
  /\ function = "none"
  /\ args = <<>>
  /\ resp = shimSuccess(Nil)
  /\ calls = <<>>
  /\ created = <<>>

Respond(fn, a, o) ==
  /\ function' = fn
  /\ args' = a
  /\ resp' = o.resp
  /\ calls' = o.calls
  /\ store' = o.store

\* the environment lets every store call succeed (fault = 0) or fails one of
\* the store calls that the invocation, run without a fault (o), gets to make
Faults(o) == 0..StoreCalls(o.calls)

InitCert ==
  \E a \in InitCertArgs :
   LET o0 == Invoke(store, "initCert", a, 0) IN
   \E fault \in Faults(o0) :
    LET o == IF fault = 0 THEN o0 ELSE Invoke(store, "initCert", a, fault)
    IN  /\ Respond("initCert", a, o)
        /\ created' = IF o.resp.Status = 200 /\ a[1] \notin DOMAIN created
                      THEN [k \in DOMAIN created \cup {a[1]} |->
                              IF k = a[1] THEN [args |-> a, bytes |-> o.calls[2].value]
                              ELSE created[k]]
                      ELSE created

ReadCert ==
  \E a \in ReadCertArgs :
   LET o0 == Invoke(store, "readCert", a, 0) IN
   \E fault \in Faults(o0) :
    /\ Respond("readCert", a, IF fault = 0 THEN o0 ELSE Invoke(store, "readCert", a, fault))
    /\ UNCHANGED created

QueryCertByOwner ==
  \E a \in QueryArgs :
   LET o0 == Invoke(store, "queryCertByOwner", a, 0) IN
   \E fault \in Faults(o0) :
    /\ Respond("queryCertByOwner", a,
               IF fault = 0 THEN o0 ELSE Invoke(store, "queryCertByOwner", a, fault))
    /\ UNCHANGED created

UnknownFunction ==
  \E fn \in UnknownFunctions, a \in {<<>>, <<PlainCerts[1]>>} :
    /\ Respond(fn, a, Invoke(store, fn, a, 0))
    /\ UNCHANGED created

Next == InitCert \/ ReadCert \/ QueryCertByOwner \/ UnknownFunction

Spec == Init /\ [][Next]_vars

----------------------------------------------------------------------------
(* The error taxonomy, read off the responses *)

IsSuccess(r) == r.Status = 200
IsError(r)   == r.Status = 500

InvalidArgumentCount(r) ==
  IsError(r) /\ r.Message = <<"Incorrect number of arguments. Expecting 4">>

InvalidArgument(r, position) ==
  IsError(r) /\ r.Message = EmptyArgumentMsgs[position]

InvalidNumericArgument(r) ==
  IsError(r) /\ r.Message = <<"3rd argument must be a numeric string">>

DuplicateRecord(r, cert) ==
  IsError(r) /\ r.Message = <<"This student already exists: ">> \o cert

NotFound(r, key) ==
  IsError(r) /\ r.Message = <<"{\"Error\":\"student does not exist: ">> \o key \o <<"\"}">>

\* the store calls of a log that took effect as writes
Writes(c) == {i \in 1..Len(c) : c[i].op = "PutState" /\ c[i].ok}

\* the store calls of a log, reads and writes alike
StoreAccesses(c) == {i \in 1..Len(c) : c[i].op \in StoreOps}

\* s is a decimal integer text: an optional sign and at least one digit
IsDecimal(s) ==
  \E k \in 0..1 :
    /\ Len(s) > k
    /\ k = 1 => s[1] \in {"+", "-"}
    /\ \A i \in (k + 1)..Len(s) : s[i] \in {Digits[j] : j \in 1..10}

\* x is s with every upper-case letter replaced by its lower-case letter
LowercaseOf(x, s) ==
  /\ Len(x) = Len(s)
  /\ \A i \in 1..Len(s) :
       \/ x[i] = s[i] /\ \A j \in 1..26 : Uppers[j] # s[i]
       \/ \E j \in 1..26 : Uppers[j] = s[i] /\ Lowers[j] = x[i]

\* a step that is an invocation of initCert with these many arguments
CreateStep(n) == function' = "initCert" /\ Len(args') = n

StoreUnavailableOnRead(r, key) ==
  IsError(r) /\ r.Message = <<"{\"Error\":\"Failed to get state for ">> \o key \o <<"\"}">>

StoreUnavailableOnCreate(r) ==
  IsError(r) /\ r.Message = <<"Failed to get student: ">> \o StoreErr

\* the integer a decimal text denotes, read from the left
RECURSIVE LeftValue(_, _)
LeftValue(s, acc) ==
  IF s = <<>> THEN acc ELSE LeftValue(Tail(s), 10 * acc + DigitVal(Head(s)))

DecimalValue(s) ==
  IF s[1] = "-" THEN 0 - LeftValue(Tail(s), 0)
  ELSE IF s[1] = "+" THEN LeftValue(Tail(s), 0)
  ELSE LeftValue(s, 0)

HasUpper(s) == \E i \in 1..Len(s), j \in 1..26 : s[i] = Uppers[j]

----------------------------------------------------------------------------
(* C1 *)

\* a call of initCert with four arguments for an id that a successful initCert created
RepeatedCreate == CreateStep(4) /\ args'[1] \in DOMAIN created

\* C1 as stated: after a successful Create for an id, every later Create with
\* that id, whatever its other three arguments, fails with DuplicateRecord and
\* leaves the store as it was.
C1_AlwaysDuplicateRecord ==
  [][RepeatedCreate => DuplicateRecord(resp', args'[1]) /\ store' = store]_vars

\* C1 amended: after a successful Create for an id, every later Create with
\* that id fails and leaves the store as it was; the failure is DuplicateRecord
\* when the four arguments are non-empty, the 3rd is a decimal integer and the
\* uniqueness lookup itself succeeds.
C1_RepeatedCreateRejected ==
  [][RepeatedCreate =>
       /\ IsError(resp')
       /\ store' = store
       /\ Writes(calls') = {}
       /\ ((\A i \in 1..4 : args'[i] # <<>>) /\ IsDecimal(args'[3]) /\ calls'[1].ok
             => DuplicateRecord(resp', args'[1]))]_vars

\* a second Create for a created id, with another owner, was answered DuplicateRecord
C1_Witness ==
  /\ function = "initCert" /\ Len(args) = 4
  /\ args[1] \in DOMAIN created
  /\ DuplicateRecord(resp, args[1])
  /\ args[4] # created[args[1]].args[4]

----------------------------------------------------------------------------
(* C2 *)

IndexEntryExists(s, degree, cert) ==
  LET ck == CreateCompositeKey(indexName, <<degree, cert>>)
  IN  ~ck.err /\ ck.key \in DOMAIN s /\ s[ck.key] = IndexValue

PrimaryExists(s, degree, cert) ==
  cert \in DOMAIN s /\ IsDocument(s[cert]) /\ Unmarshal(s[cert]).Degree = degree

\* C2 as stated: in every reachable state the index entry of (degree,
\* certificateID) exists if and only if the primary record of that
\* certificateID with that degree exists.
C2_IndexIffPrimary ==
  \A cert \in Certs :
    IndexEntryExists(store, <<"m">>, cert) <=> PrimaryExists(store, <<"m">>, cert)

----------------------------------------------------------------------------
(* C3 *)

\* C3 as stated: whenever initCert returns success, exactly two writes have
\* taken effect, the primary record under certificateID and the index entry
\* with the value 0x00 under the composite key.
C3_SuccessMeansBothWritten ==
  (function = "initCert" /\ IsSuccess(resp)) =>
     /\ Cardinality(Writes(calls)) = 2
     /\ PrimaryExists(store, ToLower(args[2]), args[1])
     /\ IndexEntryExists(store, ToLower(args[2]), args[1])

----------------------------------------------------------------------------
(* C4 *)

\* C4 as stated: whenever initCert returns an error, the store is the store
\* before the call.
C4_ErrorLeavesStore ==
  [][(function' = "initCert" /\ IsError(resp')) => store' = store]_vars

----------------------------------------------------------------------------
(* C5 *)

\* C5: once initCert has succeeded for an id, the value at key id is, in every
\* later state, byte for byte the value that call wrote.
C5_RecordImmutable ==
  \A cert \in DOMAIN created :
    cert \in DOMAIN store /\ store[cert] = created[cert].bytes

\* two records were created and a further Create for one of them was made
C5_Witness ==
  /\ Cardinality(DOMAIN created) >= 2
  /\ function = "initCert" /\ Len(args) = 4
  /\ args[1] \in DOMAIN created
  /\ args # created[args[1]].args
  /\ \A i \in 1..4 : args[i] # <<>>
  /\ IsDecimal(args[3])
  /\ calls # <<>> /\ calls[1].ok

----------------------------------------------------------------------------
(* C6 *)

\* the bytes b decode to the record that Create(a[1], a[2], a[3], a[4]) is to store
RecordOf(b, a) ==
  /\ IsDocument(b)
  /\ Unmarshal(b).ObjectType = <<"student">>
  /\ Unmarshal(b).Cert = a[1]
  /\ LowercaseOf(Unmarshal(b).Degree, a[2])
  /\ Unmarshal(b).ID = DecimalValue(a[3])
  /\ LowercaseOf(Unmarshal(b).Owner, a[4])

\* every stored primary record has a lowercase degree and a lowercase owner
StoredLowercase ==
  \A k \in DOMAIN store :
    IsDocument(store[k]) =>
      ~HasUpper(Unmarshal(store[k]).Degree) /\ ~HasUpper(Unmarshal(store[k]).Owner)

\* a call of readCert with one argument, the id of a record a successful initCert created
ReadOfCreated == function = "readCert" /\ Len(args) = 1 /\ args[1] \in DOMAIN created

\* C6 as stated: after a successful Create(id, d, n, o), ReadByID(id) succeeds
\* and returns the record with docType student, cert id, degree lowercase(d),
\* iD the value of n and owner lowercase(o); every stored record has a
\* lowercase degree and owner.
C6_ReadAfterCreateSucceeds ==
  /\ ReadOfCreated => IsSuccess(resp) /\ RecordOf(resp.Payload, created[args[1]].args)
  /\ StoredLowercase

\* C6 amended: after a successful Create(id, d, n, o), ReadByID(id) succeeds
\* unless its store lookup fails, in which case it returns StoreUnavailable;
\* when it succeeds it returns the record with docType student, cert id,
\* degree lowercase(d), iD the value of n and owner lowercase(o); every stored
\* record has a lowercase degree and owner.
C6_ReadAfterCreate ==
  /\ ReadOfCreated =>
       IF calls[1].ok
       THEN IsSuccess(resp) /\ RecordOf(resp.Payload, created[args[1]].args)
       ELSE StoreUnavailableOnRead(resp, args[1])
  /\ StoredLowercase

\* a record created with an upper-case degree, a signed numeral with a leading
\* zero and an owner with an upper-case letter was read back
C6_Witness ==
  /\ ReadOfCreated
  /\ IsSuccess(resp)
  /\ HasUpper(created[args[1]].args[2])
  /\ HasUpper(created[args[1]].args[4])
  /\ created[args[1]].args[3] = <<"-", "0", "7">>

----------------------------------------------------------------------------
(* C7 *)

\* C7: initCert with a number of arguments other than 4 fails with
\* InvalidArgumentCount, whatever the arguments and the store are, and makes
\* no store call and no change to the store.
C7_WrongCountRejected ==
  [][(function' = "initCert" /\ Len(args') # 4) =>
       /\ InvalidArgumentCount(resp')
       /\ StoreAccesses(calls') = {}
       /\ store' = store]_vars

\* initCert was called with five arguments, the first four well-formed and the
\* id free, while the store held another record
C7_Witness ==
  /\ function = "initCert" /\ Len(args) = 5
  /\ \A i \in 1..4 : args[i] # <<>>
  /\ IsDecimal(args[3])
  /\ args[1] \notin DOMAIN store
  /\ store # <<>>
  /\ InvalidArgumentCount(resp)

----------------------------------------------------------------------------
(* C8 *)

\* the lowest position of an empty argument among four
LowestEmpty(a) == CHOOSE i \in 1..4 : a[i] = <<>> /\ \A j \in 1..(i - 1) : a[j] # <<>>

\* C8: initCert with four arguments of which at least one is empty fails with
\* InvalidArgument naming the lowest empty position, also when the 3rd argument
\* is not numeric or the id exists; it makes no store write.
C8_EmptyArgumentRejected ==
  [][(CreateStep(4) /\ \E i \in 1..4 : args'[i] = <<>>) =>
       /\ InvalidArgument(resp', LowestEmpty(args'))
       /\ Writes(calls') = {}
       /\ store' = store]_vars

\* initCert for an existing id with the 2nd and 4th argument empty and a
\* non-numeric 3rd was answered with the 2nd position
C8_Witness ==
  /\ function = "initCert" /\ Len(args) = 4
  /\ args[1] \in DOMAIN store
  /\ args[2] = <<>> /\ args[4] = <<>>
  /\ args[3] # <<>> /\ ~IsDecimal(args[3])
  /\ InvalidArgument(resp, 2)

----------------------------------------------------------------------------
(* C9 *)

\* C9: initCert with four non-empty arguments whose 3rd is not a decimal
\* integer fails with InvalidNumericArgument and makes no store write, whether
\* or not the id exists.
C9_NonNumericRejected ==
  [][(CreateStep(4) /\ (\A i \in 1..4 : args'[i] # <<>>) /\ ~IsDecimal(args'[3])) =>
       /\ InvalidNumericArgument(resp')
       /\ Writes(calls') = {}
       /\ store' = store]_vars

\* initCert for an existing id with a non-numeric 3rd argument was answered
\* InvalidNumericArgument
C9_Witness ==
  /\ function = "initCert" /\ Len(args) = 4
  /\ \A i \in 1..4 : args[i] # <<>>
  /\ ~IsDecimal(args[3])
  /\ args[1] \in DOMAIN store
  /\ InvalidNumericArgument(resp)

----------------------------------------------------------------------------
(* C10 *)

ReadOfKey == function = "readCert" /\ Len(args) = 1

\* NotFound exactly when nothing is stored at the key, else the stored bytes
NotFoundOrStored ==
  IF args[1] \notin DOMAIN store
  THEN NotFound(resp, args[1])
  ELSE IsSuccess(resp) /\ resp.Payload = store[args[1]] /\ resp.Payload # <<>>

\* C10 as stated: readCert with one argument k returns NotFound exactly when no
\* value is stored at k and otherwise returns success with the bytes stored at
\* k, never an empty payload.
C10_NotFoundIffAbsent == ReadOfKey => NotFoundOrStored

\* C10 amended: when its store lookup succeeds, readCert with one argument k
\* returns NotFound (with k in the message) exactly when no value is stored at
\* k and otherwise success with exactly the bytes stored at k; when the lookup
\* fails it returns StoreUnavailable; it never returns success with an empty
\* or absent payload.
C10_ReadFaithful ==
  ReadOfKey =>
    /\ IF calls[1].ok THEN NotFoundOrStored ELSE StoreUnavailableOnRead(resp, args[1])
    /\ NotFound(resp, args[1]) => args[1] \notin DOMAIN store
    /\ IsSuccess(resp) =>
         args[1] \in DOMAIN store /\ resp.Payload = store[args[1]] /\ resp.Payload # <<>>

\* readCert of an absent key was answered NotFound while the store held records
C10_Witness ==
  /\ ReadOfKey
  /\ store # <<>>
  /\ args[1] \notin DOMAIN store
  /\ NotFound(resp, args[1])

----------------------------------------------------------------------------
(* C11 *)

\* x and y are the same text up to the case of their letters
SameLetters(x, y) ==
  /\ Len(x) = Len(y)
  /\ \A i \in 1..Len(x) :
        \/ x[i] = y[i]
        \/ \E j \in 1..Len(Uppers) : {x[i], y[i]} = {Uppers[j], Lowers[j]}

\* sub occurs in b as a run of consecutive elements
Occurs(sub, b) ==
  \E i \in 1..(Len(b) - Len(sub) + 1) : SubSeq(b, i, i + Len(sub) - 1) = sub

\* the last invocation was a queryCertByOwner that passed its argument check
QueryOfOwner == function = "queryCertByOwner" /\ Len(args) >= 1

\* the created records whose owner is the queried owner up to letter case
OwnedBy(owner) ==
  {cert \in DOMAIN created : SameLetters(created[cert].args[4], owner)}

\* C11 as stated: QueryByOwner matches owners case-insensitively: a record
\* created with owner o1 is returned by QueryByOwner(o2) whenever
\* lowercase(o1) = lowercase(o2), and two QueryByOwner calls whose arguments
\* differ only in letter case return the same result on the same store.
C11_AlwaysReturned ==
  [][/\ (QueryOfOwner' =>
           \A cert \in OwnedBy(args'[1]) :
              IsSuccess(resp') /\ Occurs(created[cert].bytes, resp'.Payload))
     /\ (QueryOfOwner /\ QueryOfOwner' /\ store' = store
           /\ SameLetters(args[1], args'[1])
           => resp' = resp)]_vars

\* C11 amended: whenever the query facility does not fail, a record created
\* with owner o1 is returned by QueryByOwner(o2) if lowercase(o1) =
\* lowercase(o2), and two QueryByOwner calls on the same store whose
\* arguments differ only in letter case return the same result when the query
\* facility fails in neither.
C11_CaseInsensitiveQuery ==
  [][/\ (QueryOfOwner' /\ (\A i \in 1..Len(calls') : calls'[i].ok) =>
           \A cert \in OwnedBy(args'[1]) :
              IsSuccess(resp') /\ Occurs(created[cert].bytes, resp'.Payload))
     /\ (QueryOfOwner /\ QueryOfOwner' /\ store' = store
           /\ SameLetters(args[1], args'[1])
           /\ (\A i \in 1..Len(calls) : calls[i].ok)
           /\ (\A i \in 1..Len(calls') : calls'[i].ok)
           => resp' = resp)]_vars

\* a query whose owner argument differs in letter case from the owner a record
\* was created with returned that record
C11_Witness ==
  /\ QueryOfOwner /\ IsSuccess(resp)
  /\ \E cert \in OwnedBy(args[1]) :
        /\ created[cert].args[4] # args[1]
        /\ Occurs(created[cert].bytes, resp.Payload)

----------------------------------------------------------------------------
(* C12 *)

\* the pairs the iterator of the last invocation handed out, in the order of the Next calls
Consumed ==
  SelectSeq(calls, LAMBDA c : c.op = "Next" /\ c.ok)

\* the positions of b at which an array element opens
ElementStarts(b) ==
  LET Opens(p) == b[p] = "{\"Key\":"
  IN  SelectSeq([p \in 1..Len(b) |-> p], Opens)

\* the i-th element of the array b: from its opening to the closing brace
\* before the next separator or before the closing bracket
ElementAt(b, i) ==
  LET starts == ElementStarts(b)
      last   == IF i < Len(starts) THEN starts[i + 1] - 2 ELSE Len(b) - 1
  IN  SubSeq(b, starts[i], last)

\* b is '[', then the elements of the pairs of stream in order, one ","
\* between two consecutive elements and nowhere else, then ']'
IsArrayOf(b, stream) ==
  LET starts == ElementStarts(b)
      N      == Len(stream)
  IN  /\ Len(b) >= 2 /\ b[1] = "[" /\ b[Len(b)] = "]"
      /\ Len(starts) = N
      /\ N = 0 => b = <<"[", "]">>
      /\ N > 0 => starts[1] = 2
      /\ \A i \in 2..N : b[starts[i] - 1] = ","
      /\ \A i \in 1..N :
            LET e == ElementAt(b, i)
            IN  /\ e[Len(e)] = "}"
                /\ \A p \in 1..Len(e) : e[p] # ","
                /\ Occurs(stream[i].key, e)
                /\ Occurs(stream[i].value, e)
      /\ Cardinality({p \in 1..Len(b) : b[p] = ","}) = IF N = 0 THEN 0 ELSE N - 1

\* C12: for a result stream of N >= 0 pairs the array the builder returns is
\* '[' followed by exactly N elements in stream order followed by ']', with
\* exactly max(N-1, 0) separator commas, each between two consecutive
\* elements; for N = 0 it is exactly "[]".
C12_ArrayOfStream ==
  QueryOfOwner /\ IsSuccess(resp) => IsArrayOf(resp.Payload, Consumed)

\* a query returned an array of two elements
C12_Witness ==
  /\ QueryOfOwner /\ IsSuccess(resp)
  /\ Len(Consumed) = 2
  /\ Consumed[1].key # Consumed[2].key
  /\ IsArrayOf(resp.Payload, Consumed)

----------------------------------------------------------------------------
(* C13 *)

\* the last invocation was a readCert
ReadOf == function = "readCert"

\* the store lookup of the last invocation failed
LookupFailed == calls # <<>> /\ ~calls[1].ok

\* r is the response that the argument list a, the content of the store s and
\* the outcome of the lookup determine for a readCert
ReadAnswer(r, s, a, failed) ==
  IF Len(a) # 1 THEN IsError(r) /\ r.Message = <<"Incorrect number of arguments. Expecting cert of the student to query">>
  ELSE IF failed THEN StoreUnavailableOnRead(r, a[1])
  ELSE IF a[1] \in DOMAIN s THEN r = [Status |-> 200, Message |-> <<>>, Payload |-> s[a[1]]]
  ELSE NotFound(r, a[1])

\* C13 as stated: two ReadByID(k) calls with no store write between them
\* return byte-identical responses, success and error alike.
C13_ReadsIdentical ==
  [][ReadOf /\ ReadOf' /\ args' = args /\ store' = store => resp' = resp]_vars

\* C13 amended: two ReadByID(k) calls with no store write between them return
\* byte-identical responses when the store lookup fails in both or in
\* neither; the response of a ReadByID depends on nothing but its arguments,
\* the content of the store and whether the lookup failed, so the reads and
\* queries in between do not matter.
C13_ReadIdempotent ==
  [][/\ (ReadOf /\ ReadOf' /\ args' = args /\ store' = store
           /\ (LookupFailed' <=> LookupFailed)
           => resp' = resp)
     /\ (ReadOf' => ReadAnswer(resp', store', args', LookupFailed'))
     /\ (ReadOf' => store' = store)]_vars

\* a read of a key of a store of several keys returned the value stored at it
C13_Witness ==
  /\ ReadOf /\ Len(args) = 1 /\ ~LookupFailed
  /\ Cardinality(DOMAIN store) >= 3
  /\ args[1] \in DOMAIN store
  /\ resp = [Status |-> 200, Message |-> <<>>, Payload |-> store[args[1]]]

----------------------------------------------------------------------------
(* C14 *)

\* the store operations of the last invocation, in the order they were issued
StoreOpsIssued == SelectSeq(calls, LAMBDA c : c.op \in StoreOps)

\* the operations of an initCert on the certificate cert
IsLookup(c, cert)       == c.op = "GetState" /\ c.key = cert
IsPrimaryWrite(c, cert) == c.op = "PutState" /\ c.key = cert /\ c.value # <<NUL>>
IsIndexWrite(c, cert)   == c.op = "PutState" /\ c.key # cert /\ c.value = <<NUL>>

\* C14: within every Create the store operations occur in the order
\* uniqueness lookup, primary write, index write; the primary write is never
\* issued unless the lookup returned absent without error, and the index
\* write is never issued unless the primary write succeeded.
C14_CreateOrder ==
  function = "initCert" =>
    LET ops == StoreOpsIssued
    IN  /\ Len(ops) <= 3
        /\ Len(ops) >= 1 => IsLookup(ops[1], args[1])
        /\ Len(ops) >= 2 =>
             /\ IsPrimaryWrite(ops[2], args[1])
             /\ ops[1].ok /\ ops[1].value = <<>>
        /\ Len(ops) >= 3 =>
             /\ IsIndexWrite(ops[3], args[1])
             /\ ops[2].ok

\* a Create issued its lookup, its primary write and its index write
C14_Witness ==
  /\ function = "initCert" /\ IsSuccess(resp)
  /\ Len(StoreOpsIssued) = 3
  /\ IsLookup(StoreOpsIssued[1], args[1])
  /\ IsPrimaryWrite(StoreOpsIssued[2], args[1])
  /\ IsIndexWrite(StoreOpsIssued[3], args[1])
  /\ store # <<>>

----------------------------------------------------------------------------
(* C15 *)

\* the positions of the log of the last invocation at which op was called
CallsOf(op) == {i \in 1..Len(calls) : calls[i].op = op}

\* the query facility handed out an iterator in the last invocation
IteratorObtained == \E i \in CallsOf("GetQueryResult") : calls[i].ok

\* C15: every query iterator obtained is closed exactly once by the time the
\* call returns, on every exit path (stream exhausted, Next failing
\* mid-stream); when the query facility fails to produce an iterator, no
\* Close is attempted.
C15_IteratorClosedOnce ==
  function = "queryCertByOwner" =>
    /\ Cardinality(CallsOf("GetQueryResult")) <= 1
    /\ IteratorObtained =>
         /\ Cardinality(CallsOf("Close")) = 1
         /\ calls[Len(calls)].op = "Close"
    /\ ~IteratorObtained => CallsOf("Close") = {}

\* Next failed after an element had been consumed, and the iterator was closed
C15_Witness ==
  /\ function = "queryCertByOwner" /\ IteratorObtained
  /\ \E i, j \in CallsOf("Next") : i < j /\ calls[i].ok /\ ~calls[j].ok
  /\ Cardinality(CallsOf("Close")) = 1
  /\ IsError(resp)

----------------------------------------------------------------------------
(* C16 *)

\* the text that the chunks of b make up when written one after the other
RECURSIVE Text(_)
Text(b) == IF b = <<>> THEN "" ELSE Head(b) \o Text(Tail(b))

\* every element of the array of the last query is the text that Layout
\* gives for its pair
ElementsLaidOut(Layout(_, _)) ==
  \A i \in 1..Len(Consumed) :
     Text(ElementAt(resp.Payload, i)) = Layout(Text(Consumed[i].key), Text(Consumed[i].value))

\* {"Key":"k","Record":v}
CompactLayout(k, v) == "{\"Key\":\"" \o k \o "\",\"Record\":" \o v \o "}"

\* {"Key":"k", "Record":v}
SpacedLayout(k, v) == "{\"Key\":\"" \o k \o "\", \"Record\":" \o v \o "}"

\* C16 as stated: each element emitted for a pair (k, v) is exactly
\* {"Key":"k","Record":v}, v embedded raw, with no other bytes (no
\* whitespace) between the tokens.
C16_CompactElements ==
  QueryOfOwner /\ IsSuccess(resp) => ElementsLaidOut(CompactLayout)

\* C16 amended: each element emitted for a pair (k, v) is exactly
\* {"Key":"k", "Record":v}: v embedded raw, one space after the comma that
\* follows the key and no other byte between the tokens.
C16_SpacedElements ==
  QueryOfOwner /\ IsSuccess(resp) => ElementsLaidOut(SpacedLayout)

\* a query returned two elements, each laid out with the space
C16_Witness ==
  /\ QueryOfOwner /\ IsSuccess(resp)
  /\ Len(Consumed) = 2
  /\ ElementsLaidOut(SpacedLayout)
  /\ ~ElementsLaidOut(CompactLayout)

----------------------------------------------------------------------------
(* C17 *)

\* the query facility failed in the last invocation: no iterator, or a failed Next
FacilityFailed ==
  \E i \in CallsOf("GetQueryResult") \cup CallsOf("Next") : ~calls[i].ok

QueryFailed(r) == IsError(r) /\ r.Message = StoreErr

\* C17: any query-facility error inside QueryByOwner (the query fails to
\* start, or Next fails after some elements were consumed) makes QueryByOwner
\* return QueryFailed carrying that error, with no partial array payload.
C17_QueryErrorSurfaced ==
  function = "queryCertByOwner" /\ FacilityFailed =>
    QueryFailed(resp) /\ resp.Payload = <<>>

\* the second Next of a query failed and the response is the error, with no payload
C17_Witness ==
  /\ function = "queryCertByOwner" /\ FacilityFailed
  /\ \E i \in CallsOf("Next") : calls[i].ok /\ calls[i].key \in DOMAIN store
  /\ QueryFailed(resp) /\ resp.Payload = <<>>

----------------------------------------------------------------------------
(* C18 *)

\* the last invocation looked the key of its first argument up and the lookup failed
LookupOfKeyFailed ==
  /\ calls # <<>>
  /\ calls[1].op = "GetState" /\ calls[1].key = args[1] /\ ~calls[1].ok

\* C18: when the primary-store lookup itself fails, Create returns
\* StoreUnavailable (not DuplicateRecord, not success) and performs no store
\* write, and ReadByID returns StoreUnavailable (not NotFound) with the key in
\* the message.
C18_LookupFailureSurfaced ==
  [][/\ (function' = "initCert" /\ LookupOfKeyFailed' =>
           /\ StoreUnavailableOnCreate(resp')
           /\ ~DuplicateRecord(resp', args'[1]) /\ ~IsSuccess(resp')
           /\ CallsOf("PutState")' = {}
           /\ store' = store)
     /\ (function' = "readCert" /\ LookupOfKeyFailed' =>
           /\ StoreUnavailableOnRead(resp', args'[1])
           /\ ~NotFound(resp', args'[1])
           /\ Occurs(args'[1], resp'.Message))]_vars

\* the lookup of a Create for a stored id failed and the Create answered StoreUnavailable
C18_Witness ==
  /\ function = "initCert" /\ LookupOfKeyFailed
  /\ args[1] \in DOMAIN store
  /\ StoreUnavailableOnCreate(resp)
  /\ CallsOf("PutState") = {}

----------------------------------------------------------------------------
(* C19 *)

\* the keys of s that hold the index sentinel, and those that hold a record
SentinelKeys(s) == {k \in DOMAIN s : s[k] = <<NUL>>}
RecordKeys(s)   == {k \in DOMAIN s : s[k] # <<NUL>>}

\* C19: composite index keys and plain primary keys never collide: in every
\* reachable state the keys holding index sentinels are disjoint from the
\* keys holding primary records, no Create's index write lands on a key used
\* as some record's certificateID, no Create's primary write lands on an
\* index key, and ReadByID never returns an index sentinel as a record.
C19_KeysNeverCollide ==
  [][/\ SentinelKeys(store') \cap RecordKeys(store') = {}
     /\ (function' = "initCert" =>
           \A i \in Writes(calls') :
              /\ calls'[i].value = <<NUL>> => calls'[i].key \notin RecordKeys(store)
              /\ calls'[i].value # <<NUL>> => calls'[i].key \notin SentinelKeys(store))
     /\ (function' = "readCert" /\ IsSuccess(resp') => resp'.Payload # <<NUL>>)]_vars

----------------------------------------------------------------------------
(* C20 *)

\* C20: only a Create invocation can change the store: every ReadByID
\* (readCert) call, every QueryByOwner (queryCertByOwner) call and every
\* Invoke with an unknown verb leaves the store unchanged, whether it returns
\* success or an error.
C20_OnlyCreateWrites ==
  [][/\ (function' # "initCert" => store' = store /\ CallsOf("PutState")' = {})
     /\ (store' # store => function' = "initCert")]_vars

\* an unknown verb was answered with an error on a store that holds records
C20_Witness ==
  /\ function \in UnknownFunctions
  /\ IsError(resp) /\ resp.Message = <<"Received unknown function invocation">>
  /\ args # <<>> /\ args[1] \in DOMAIN store

====
